---- MODULE Spec2Model ----
(***************************************************************************)
(* Model of the facial-authentication core of server/auth.py:              *)
(* register_user, verify_user, delete_user and the helpers they call,      *)
(* over a MongoDB collection `users` modelled as a sequence of documents   *)
(* in insertion order.                                                     *)
(*                                                                         *)
(* Numeric conventions.  A face encoding is an integer vector whose        *)
(* components are in units of 1/20, so that the factors 0.95 and 1.05 of   *)
(* get_face_encoding are the integers 19 and 21 over 20.  A cosine         *)
(* similarity is an integer in thousandths (0.92 is 920).  The faces are   *)
(* chosen so that every similarity is an exact number of thousandths.      *)
(***************************************************************************)
EXTENDS Integers, Sequences, FiniteSets, TLC

VARIABLES
    users,      \* the collection db.users: sequence of documents
    prev,       \* the collection as it was when the last call started
    call,       \* the last completed call: operation and arguments
    ret,        \* the dict the last completed call returned
    cmps,       \* number of cosine similarities the last call computed
    frames      \* per worker: the frame of a register_user call in progress

vars == <<users, prev, call, ret, cmps, frames>>

(***************************************************************************)
(* Bounds of the model.                                                    *)
(***************************************************************************)
\* number of register_user calls each concurrent worker makes
MaxCalls == 1

(***************************************************************************)
(* Optional values (Python None).                                          *)
(***************************************************************************)
None == [is_none |-> TRUE]
Some(x) == [is_none |-> FALSE, val |-> x]

(***************************************************************************)
(* Inputs.  A name is a sequence of characters.  An image_data argument    *)
(* is described by what the external libraries make of it: whether it is   *)
(* the empty string, whether cv2 decodes it, the faces face_recognition    *)
(* locates in it (each given by its 128-d encoding, here 4-d), whether     *)
(* the landmarks of the first face pass validation, and whether the        *)
(* extractor raises.                                                       *)
(***************************************************************************)
NameInputs == { <<>>, <<" ">>, <<"\t", "">>, <<"a">>, <<"b">> }

FaceA == <<1, 0, 0, 0>>
FaceB == <<23, 4, 4, 8>>      \* cos(A,B) = 0.92 exactly
FaceC == <<0, 1, 0, 0>>       \* cos(A,C) = 0, cos(B,C) = 0.16
FaceD == <<24, 7, 0, 0>>      \* cos(A,D) = 0.96, cos(B,D) = 0.928

Img(text, decodes, faces, lm, raises) ==
    [text |-> text, decodes |-> decodes, faces |-> faces,
     landmarks_ok |-> lm, raises |-> raises]

ImgEmpty    == Img("", FALSE, <<>>, FALSE, FALSE)
ImgGarbage  == Img("garbage", FALSE, <<>>, FALSE, FALSE)
ImgNoFace   == Img("img", TRUE, <<>>, FALSE, FALSE)
ImgLowQ     == Img("img", TRUE, <<FaceA>>, FALSE, FALSE)
ImgRaises   == Img("img", TRUE, <<FaceA>>, TRUE, TRUE)
ImgA        == Img("img", TRUE, <<FaceA>>, TRUE, FALSE)
ImgB        == Img("img", TRUE, <<FaceB>>, TRUE, FALSE)
ImgC        == Img("img", TRUE, <<FaceC>>, TRUE, FALSE)
ImgD        == Img("img", TRUE, <<FaceD>>, TRUE, FALSE)
ImgAC       == Img("img", TRUE, <<FaceA, FaceC>>, TRUE, FALSE)

ImageInputs == { ImgEmpty, ImgGarbage, ImgNoFace, ImgLowQ, ImgRaises,
                 ImgA, ImgB, ImgC, ImgD, ImgAC }

\* text of the exception a failing store call raises
StoreErrorText == "store unavailable"

(***************************************************************************)
(* str.strip and the emptiness tests of register_user.                     *)
(***************************************************************************)
\* the characters str.strip() removes, those for which str.isspace() holds:
\* space, U+0009..U+000D (tab, line feed, vertical tab, form feed, carriage
\* return), U+001C..U+001F, U+0085, U+00A0 and U+1680, the last eight
\* written as the characters themselves.  The remaining str.isspace()
\* characters (U+2000..U+200A, U+2028, U+2029, U+202F, U+205F, U+3000) are
\* rejected by the lexer inside a string and so occur in no name of the model.
Whitespace ==
    { " ", "\t", "\n", "\r", "\f",
      "", "", "", "", "", "", " ", " " }

RECURSIVE LStrip(_)
LStrip(s) ==
    IF s = <<>> THEN s
    ELSE IF Head(s) \in Whitespace THEN LStrip(Tail(s)) ELSE s

RECURSIVE RStrip(_)
RStrip(s) ==
    IF s = <<>> THEN s
    ELSE IF s[Len(s)] \in Whitespace THEN RStrip(SubSeq(s, 1, Len(s) - 1)) ELSE s

Strip(s) == RStrip(LStrip(s))

\* not name or not name.strip()
NameMissing(name) == name = <<>> \/ Strip(name) = <<>>

\* not image_data
ImageMissing(image_data) == image_data.text = ""

(***************************************************************************)
(* decode_base64_image: the decoded image, or None.                        *)
(***************************************************************************)
DecodeBase64Image(image_data) ==
    IF image_data.decodes THEN Some(image_data) ELSE None

(***************************************************************************)
(* get_face_encoding: for every located face its encoding followed by the *)
(* encoding times 0.95 and times 1.05; None when no face is located, when  *)
(* the landmarks of the first face fail validation, or on any exception.   *)
(***************************************************************************)
Scale(v, k) == [i \in 1..Len(v) |-> v[i] * k]

VariantsOriginalOnly(v) == << Scale(v, 20) >>
Variants(v) == << Scale(v, 20), Scale(v, 19), Scale(v, 21) >>

RECURSIVE AllVariants(_)
AllVariants(faces) ==
    IF faces = <<>> THEN <<>>
    ELSE Variants(Head(faces)) \o AllVariants(Tail(faces))

GetFaceEncoding(image) ==
    IF image.raises THEN None
    ELSE IF image.faces = <<>> THEN None
    ELSE IF ~image.landmarks_ok THEN None
    ELSE Some(AllVariants(image.faces))

(***************************************************************************)
(* sklearn cosine_similarity of two vectors, in thousandths.               *)
(***************************************************************************)
RECURSIVE DotFrom(_, _, _)
DotFrom(x, y, i) ==
    IF i > Len(x) THEN 0 ELSE x[i] * y[i] + DotFrom(x, y, i + 1)

Dot(x, y) == DotFrom(x, y, 1)

RECURSIVE SqrtBetween(_, _, _)
SqrtBetween(n, lo, hi) ==
    IF lo >= hi THEN lo
    ELSE LET mid == (lo + hi + 1) \div 2
         IN IF mid * mid <= n THEN SqrtBetween(n, mid, hi)
            ELSE SqrtBetween(n, lo, mid - 1)

Norm(x) == SqrtBetween(Dot(x, x), 0, 1024)

\* normalize(X) . normalize(Y)^T; a zero norm is replaced by 1
Cosine(x, y) ==
    LET nx == IF Norm(x) = 0 THEN 1 ELSE Norm(x)
        ny == IF Norm(y) = 0 THEN 1 ELSE Norm(y)
    IN (Dot(x, y) * 1000) \div (nx * ny)

\* Cosine over every pair of encodings the inputs can produce, computed once
Faces == UNION { {image.faces[i] : i \in 1..Len(image.faces)} : image \in ImageInputs }
Encodings == UNION { {Variants(f)[i] : i \in 1..Len(Variants(f))} : f \in Faces }
CosineTable == [x \in Encodings, y \in Encodings |-> Cosine(x, y)]

CosineSimilarity(x, y) == CosineTable[x, y]

SeqMax(s) == CHOOSE m \in {s[i] : i \in 1..Len(s)} :
                 \A i \in 1..Len(s) : s[i] <= m

(***************************************************************************)
(* The collection db.users.  A document is [name, face_encodings]; the     *)
(* registration_date field is written once and never read by auth.py, and  *)
(* is left out.  Every store call either completes or raises.              *)
(***************************************************************************)
\* users.find_one({"name": name}): the first document with that name
RECURSIVE FindOneFrom(_, _, _)
FindOneFrom(store, name, i) ==
    IF i > Len(store) THEN None
    ELSE IF store[i].name = name THEN Some(store[i])
    ELSE FindOneFrom(store, name, i + 1)

FindOne(store, name) == FindOneFrom(store, name, 1)

\* users.count_documents({})
CountDocuments(store) == Len(store)

\* list(users.find())
FindAllStaleCache(store) == prev
FindAll(store) == store

\* users.insert_one(user_data): the document is appended and the call
\* returns; or the call raises, either before the server applied the write
\* (nothing is written) or after it did (the document is appended and the
\* acknowledgement is lost)
InsertOne(store, doc, raises, applied) ==
    IF raises /\ ~applied THEN store ELSE Append(store, doc)

\* users.delete_one({"name": name}): removes the first document with that
\* name; the result carries deleted_count
RECURSIVE DeleteOneFrom(_, _, _)
DeleteOneFrom(store, name, i) ==
    IF i > Len(store) THEN [users |-> store, deleted_count |-> 0]
    ELSE IF store[i].name = name
         THEN [users |-> SubSeq(store, 1, i - 1) \o SubSeq(store, i + 1, Len(store)),
               deleted_count |-> 1]
    ELSE DeleteOneFrom(store, name, i + 1)

DeleteOne(store, name) == DeleteOneFrom(store, name, 1)

(***************************************************************************)
(* The scan shared by find_existing_face and verify_user: for every user,  *)
(* every stored encoding and every query encoding the similarity; the      *)
(* user's best score replaces the running best when strictly greater.      *)
(***************************************************************************)
\* user_scores of one user, in the order the loops append them
UserScores(user, face_encodings) ==
    LET n == Len(face_encodings)
        m == Len(user.face_encodings)
    IN [k \in 1..(m * n) |->
           CosineSimilarity(face_encodings[((k - 1) % n) + 1],
                            user.face_encodings[((k - 1) \div n) + 1])]

\* if max_score > best_match_score
BeatsFirstOnly(max_score, best_match_score) ==
    best_match_score = 0 /\ max_score > best_match_score
Beats(max_score, best_match_score) == max_score > best_match_score

RECURSIVE ScanFrom(_, _, _, _)
ScanFrom(all_users, face_encodings, i, best) ==
    IF i > Len(all_users) THEN best
    ELSE LET user_scores == UserScores(all_users[i], face_encodings)
             cnt == best.cmps + Len(user_scores)
             next == IF user_scores # <<>> /\ Beats(SeqMax(user_scores), best.score)
                     THEN [score |-> SeqMax(user_scores),
                           name |-> Some(all_users[i].name), cmps |-> cnt]
                     ELSE [best EXCEPT !.cmps = cnt]
         IN ScanFrom(all_users, face_encodings, i + 1, next)

\* best_match = None, best_match_score = 0.0, then the loop over all_users
Scan(all_users, face_encodings) ==
    ScanFrom(all_users, face_encodings, 1, [score |-> 0, name |-> None, cmps |-> 0])

\* the thresholds, in thousandths
DedupThreshold == 920
VerifyThreshold == 920

\* if best_match_score > 0.92 (find_existing_face)
DedupExceeds(score) == score > DedupThreshold

\* if best_match_score > 0.92 (verify_user)
VerifyAcceptsInclusive(score) == score >= VerifyThreshold
VerifyAccepts(score) == score > VerifyThreshold

\* if not all_users (verify_user)
NoUsersNever(all_users) == FALSE
NoUsers(all_users) == Len(all_users) = 0

(***************************************************************************)
(* register_user as a frame advanced one store call at a time.  pc names   *)
(* the store call the frame is about to make; `raises` says whether that   *)
(* call raises.  RegStep returns the collection and the frame after the    *)
(* call and the code that follows it up to the next store call.            *)
(***************************************************************************)
Failure(message, type) ==
    [success |-> FALSE, message |-> message, type |-> type]

NewFrame(name, image_data) ==
    [pc |-> "enter", name |-> name, image_data |-> image_data,
     face_encodings |-> None, ret |-> None, cmps |-> 0, raised |-> FALSE]

Return(fr, result) == [fr EXCEPT !.pc = "done", !.ret = Some(result)]

\* lines 259-273: the two validation checks, in the order of the code
Validate(fr) ==
    IF NameMissing(fr.name)
    THEN Return(fr, Failure("Name is required", "validation_error"))
    ELSE IF ImageMissing(fr.image_data)
    THEN Return(fr, Failure("Image data is required", "validation_error"))
    ELSE [fr EXCEPT !.pc = "find_one"]

\* lines 285-319: decoding and face extraction, no store call
Extract(fr) ==
    LET image == DecodeBase64Image(fr.image_data)
    IN IF image.is_none
       THEN Return(fr, Failure("Failed to process image data. Please try again.",
                               "image_error"))
       ELSE LET face_encodings == GetFaceEncoding(image.val)
            IN IF face_encodings.is_none
               THEN Return(fr, Failure("No face detected in the image. Please ensure your face is clearly visible and well-lit.",
                                       "face_error"))
               ELSE [fr EXCEPT !.pc = "count_documents",
                               !.face_encodings = face_encodings]

CheckNameAfterExtract(store, fr, raises) ==
    IF raises
    THEN Return(fr, Failure(<<"Registration failed: ", StoreErrorText>>, "error"))
    ELSE IF Extract(fr).pc = "done" THEN Extract(fr)
    ELSE IF ~FindOne(store, fr.name).is_none
    THEN Return(fr, Failure("User already exists", "user_exists"))
    ELSE Extract(fr)

\* lines 275-283, then Extract
CheckName(store, fr, raises) ==
    IF raises
    THEN Return(fr, Failure(<<"Registration failed: ", StoreErrorText>>, "error"))
    ELSE IF ~FindOne(store, fr.name).is_none
    THEN Return(fr, Failure("User already exists", "user_exists"))
    ELSE Extract(fr)

\* find_existing_face, lines 209-215 and 250-252: a raise is caught and
\* None returned, which register_user takes as no existing face
CountStep(store, fr, raises) ==
    IF raises THEN [fr EXCEPT !.pc = "insert_one"]
    ELSE IF CountDocuments(store) = 0 THEN [fr EXCEPT !.pc = "insert_one"]
    ELSE [fr EXCEPT !.pc = "find"]

\* find_existing_face, lines 217-252, and register_user lines 323-331
FindStep(store, fr, raises) ==
    IF raises THEN [fr EXCEPT !.pc = "insert_one"]
    ELSE LET best == Scan(FindAll(store), fr.face_encodings.val)
             scanned == [fr EXCEPT !.cmps = best.cmps]
         IN IF DedupExceeds(best.score) /\ ~best.name.is_none
            THEN Return(scanned,
                        [success |-> FALSE,
                         message |-> <<"This face is already registered as '",
                                       best.name.val, "'">>,
                         type |-> "face_exists",
                         existing_user |-> best.name.val])
            ELSE [scanned EXCEPT !.pc = "insert_one"]

\* lines 342-346
UserData(fr) == [name |-> fr.name, face_encodings |-> fr.face_encodings.val]

\* lines 340-361
InsertStep(fr, raises) ==
    IF raises
    THEN Return(fr, Failure(<<"Failed to save user data: ", StoreErrorText>>,
                            "database_error"))
    ELSE Return(fr, [success |-> TRUE, message |-> "User registered successfully",
                     type |-> "success"])

\* frame field `raised` records that a store call of this call has raised;
\* `applied` tells whether a raising insert_one had written the document
RegStep(store, fr, raises, applied) ==
    LET at == [fr EXCEPT !.raised = fr.raised \/ raises]
    IN CASE fr.pc = "enter" ->
               [users |-> store, fr |-> Validate(fr)]
         [] fr.pc = "find_one" ->
               [users |-> store, fr |-> CheckName(store, at, raises)]
         [] fr.pc = "count_documents" ->
               [users |-> store, fr |-> CountStep(store, at, raises)]
         [] fr.pc = "find" ->
               [users |-> store, fr |-> FindStep(store, at, raises)]
         [] fr.pc = "insert_one" ->
               [users |-> InsertOne(store, UserData(fr), raises, applied),
                fr |-> InsertStep(at, raises)]

\* the store calls of register_user; in a call at most one of them raises
\* ("none": none does); insert_one raises before the write is applied
\* ("insert_one") or after it ("insert_one_applied")
RegisterFailures ==
    {"none", "find_one", "count_documents", "find", "insert_one",
     "insert_one_applied"}

\* whether the store call at position pc raises in a call failing at fail_at
RaisesAt(pc, fail_at) ==
    \/ pc = fail_at
    \/ pc = "insert_one" /\ fail_at = "insert_one_applied"

RECURSIVE RunRegister(_, _, _)
RunRegister(store, fr, fail_at) ==
    IF fr.pc = "done" THEN [users |-> store, fr |-> fr]
    ELSE LET step == RegStep(store, fr, RaisesAt(fr.pc, fail_at),
                             fail_at = "insert_one_applied")
         IN RunRegister(step.users, step.fr, fail_at)

\* register_user(name, image_data), run from entry to return
RegisterUser(store, name, image_data, fail_at) ==
    RunRegister(store, NewFrame(name, image_data), fail_at)

(***************************************************************************)
(* verify_user(image_data): one store call, users.find({}).                *)
(***************************************************************************)
\* the collection after verify_user returned `result` for the query
\* encodings: verify_user makes no store call after users.find({})
AfterVerifyAppends(store, result, face_encodings) ==
    IF result.success
    THEN [i \in 1..Len(store) |->
             IF store[i].name = result.username
             THEN [store[i] EXCEPT !.face_encodings = Append(@, face_encodings[1])]
             ELSE store[i]]
    ELSE store
AfterVerify(store, result, face_encodings) == store

\* line 414: the dict returned when the best match does not clear the
\* threshold
RejectedWithScore(best) ==
    [success |-> FALSE, message |-> "Face not recognized",
     confidence |-> best.score]
Rejected(best) == [success |-> FALSE, message |-> "Face not recognized"]

VerifyUser(store, image_data, raises) ==
    LET image == DecodeBase64Image(image_data)
        face_encodings == GetFaceEncoding(image.val)
        all_users == FindAll(store)
        best == Scan(all_users, face_encodings.val)
        fail(message) == [ret |-> [success |-> FALSE, message |-> message],
                          users |-> store,
                          cmps |-> 0, raised |-> message = StoreErrorText]
        accepted == [success |-> TRUE, message |-> "Login successful",
                     username |-> best.name.val, confidence |-> best.score]
        rejected == Rejected(best)
    IN IF image.is_none THEN fail("Invalid image data")
       ELSE IF face_encodings.is_none THEN fail("No face detected in the image")
       ELSE IF raises THEN fail(StoreErrorText)
       ELSE IF NoUsers(all_users) THEN fail("No registered users found")
       ELSE IF VerifyAccepts(best.score)
            THEN [ret |-> accepted,
                  users |-> AfterVerify(store, accepted, face_encodings.val),
                  cmps |-> best.cmps, raised |-> FALSE]
            ELSE [ret |-> rejected,
                  users |-> AfterVerify(store, rejected, face_encodings.val),
                  cmps |-> best.cmps, raised |-> FALSE]

(***************************************************************************)
(* delete_user(name): one store call, users.delete_one.                    *)
(***************************************************************************)
\* lines 424-426: the dict returned for a deleted_count
DeleteResult(deleted_count) ==
    IF deleted_count > 0
    THEN [success |-> FALSE, message |-> "User deleted successfully"]
    ELSE [success |-> FALSE, message |-> "User not found"]

\* a raising delete_one raises before the server applied the deletion or
\* after it did (`applied`)
DeleteUser(store, name, raises, applied) ==
    IF raises
    THEN [users |-> IF applied THEN DeleteOne(store, name).users ELSE store,
          ret |-> [success |-> FALSE, message |-> StoreErrorText]]
    ELSE LET result == DeleteOne(store, name)
         IN [users |-> result.users,
             ret |-> DeleteResult(result.deleted_count)]

(***************************************************************************)
(* Sequential specification: calls do not overlap; each action is one      *)
(* whole call.                                                             *)
(***************************************************************************)
Workers == {1, 2}

IdleFrame == [pc |-> "idle", calls |-> 0]

Init ==
    /\ users = <<>>
    /\ prev = <<>>
    /\ call = [op |-> "none"]
    /\ ret = [success |-> FALSE, message |-> ""]
    /\ cmps = 0
    /\ frames = [w \in Workers |-> IdleFrame]

Register(name, image_data, fail_at) ==
    LET out == RegisterUser(users, name, image_data, fail_at)
    IN /\ fail_at # "none" => out.fr.raised
       /\ users' = out.users
       /\ prev' = users
       /\ call' = [op |-> "register", name |-> name, image_data |-> image_data,
                   fail_at |-> fail_at]
       /\ ret' = out.fr.ret.val
       /\ cmps' = out.fr.cmps
       /\ UNCHANGED frames

Verify(image_data, raises) ==
    LET out == VerifyUser(users, image_data, raises)
    IN /\ raises => out.raised
       /\ users' = out.users
       /\ prev' = users
       /\ call' = [op |-> "verify", image_data |-> image_data, raises |-> raises]
       /\ ret' = out.ret
       /\ cmps' = out.cmps
       /\ UNCHANGED frames

\* `applied` is drawn only for a raising delete_one that had a document to
\* remove
Delete(name, raises, applied) ==
    LET out == DeleteUser(users, name, raises, applied)
    IN /\ applied => (raises /\ out.users # users)
       /\ users' = out.users
       /\ prev' = users
       /\ call' = [op |-> "delete", name |-> name, raises |-> raises,
                   applied |-> applied]
       /\ ret' = out.ret
       /\ cmps' = 0
       /\ UNCHANGED frames

Next ==
    \/ \E name \in NameInputs, image_data \in ImageInputs, fail_at \in RegisterFailures :
           Register(name, image_data, fail_at)
    \/ \E image_data \in ImageInputs, raises \in BOOLEAN : Verify(image_data, raises)
    \/ \E name \in NameInputs, raises \in BOOLEAN, applied \in BOOLEAN :
           Delete(name, raises, applied)

Spec == Init /\ [][Next]_vars

(***************************************************************************)
(* Concurrent specification: two workers (server processes sharing the     *)
(* collection) run register_user, interleaved at the store calls.  The     *)
(* collection has no unique index: auth.py creates none.  Every store     *)
(* call completes here; raising store calls are covered by Spec.           *)
(***************************************************************************)
ConcurrentNames == { <<"a">>, <<"b">> }
ConcurrentImages == { ImgA, ImgC, ImgNoFace }

Begin(w, name, image_data) ==
    /\ frames[w].pc = "idle"
    /\ frames[w].calls < MaxCalls
    /\ frames' = [frames EXCEPT ![w] =
                     [calls |-> frames[w].calls + 1] @@ Validate(NewFrame(name, image_data))]
    /\ UNCHANGED <<users, prev, call, ret, cmps>>

StoreCall(w) ==
    /\ frames[w].pc \in {"find_one", "count_documents", "find", "insert_one"}
    /\ LET fr == [k \in DOMAIN frames[w] \ {"calls"} |-> frames[w][k]]
           step == RegStep(users, fr, FALSE, FALSE)
       IN /\ users' = step.users
          /\ frames' = [frames EXCEPT ![w] = [calls |-> frames[w].calls] @@ step.fr]
    /\ UNCHANGED <<prev, call, ret, cmps>>

Finish(w) ==
    /\ frames[w].pc = "done"
    /\ frames' = [frames EXCEPT ![w] = [pc |-> "idle", calls |-> frames[w].calls]]
    /\ UNCHANGED <<users, prev, call, ret, cmps>>

NextC ==
    \/ \E w \in Workers, name \in ConcurrentNames, image_data \in ConcurrentImages :
           Begin(w, name, image_data)
    \/ \E w \in Workers : StoreCall(w)
    \/ \E w \in Workers : Finish(w)

SpecC == Init /\ [][NextC]_vars

(***************************************************************************)
(* Vocabulary of the properties.                                           *)
(***************************************************************************)
HasName(store, name) == \E i \in 1..Len(store) : store[i].name = name

\* the entries of a sequence of encodings
Entries(encs) == {encs[i] : i \in 1..Len(encs)}

\* every similarity between a stored encoding of `user` and a query encoding
ScoresOf(user, encs) ==
    {CosineSimilarity(e, st) : e \in Entries(encs), st \in Entries(user.face_encodings)}

\* the names of the users holding an encoding more similar than the dedup
\* threshold to one of the query encodings
Matching(store, encs) ==
    {store[i].name : i \in {j \in 1..Len(store) :
                               \E sc \in ScoresOf(store[j], encs) : sc > DedupThreshold}}

\* the greatest similarity over every (user, stored encoding, query
\* encoding), and 0.0 when none is greater
BestScore(store, encs) ==
    LET all == UNION {ScoresOf(store[i], encs) : i \in 1..Len(store)} \cup {0}
    IN CHOOSE m \in all : \A x \in all : x <= m

\* the encodings the extractor yields for image_data, None when it yields none
EncodingsOf(image_data) ==
    IF DecodeBase64Image(image_data).is_none THEN None
    ELSE GetFaceEncoding(DecodeBase64Image(image_data).val)

\* a register_user call whose name and image pass validation, decoding and
\* extraction, for an identity the store did not hold, whose find_one returned
FreshRegister ==
    /\ call.op = "register"
    /\ ~NameMissing(call.name)
    /\ ~HasName(prev, call.name)
    /\ ~EncodingsOf(call.image_data).is_none
    /\ call.fail_at # "find_one"

\* a verify_user call that extracted a face and read the store
ScanningVerify ==
    /\ call.op = "verify"
    /\ ~EncodingsOf(call.image_data).is_none
    /\ ~call.raises

\* C1: two concurrent register_user calls with the same name never both
\* return success, and the store never holds two documents with one name.
C1_UniqueIdentityUnderConcurrency ==
    /\ \A i, j \in 1..Len(users) : users[i].name = users[j].name => i = j
    /\ ~ (/\ frames[1].pc = "done" /\ frames[2].pc = "done"
          /\ frames[1].name = frames[2].name
          /\ frames[1].ret.val.success /\ frames[2].ret.val.success)

\* C2 as stated: register_user with a name the store holds fails with type
\* "user_exists" whatever the image argument, and writes nothing.
C2_DuplicateAlwaysUserExists ==
    (call.op = "register" /\ HasName(prev, call.name))
        => (ret.type = "user_exists" /\ users = prev)

\* C2 amended: register_user with a name the store holds always fails and
\* writes nothing; the type is "user_exists" exactly when image_data is not
\* empty and find_one returns; empty image_data gives "validation_error",
\* a raising find_one gives "error".
C2_DuplicateRejected ==
    (call.op = "register" /\ HasName(prev, call.name))
        => /\ ~ret.success
           /\ users = prev
           /\ ret.type = (IF ImageMissing(call.image_data) THEN "validation_error"
                          ELSE IF call.fail_at = "find_one" THEN "error"
                          ELSE "user_exists")

\* C2 witness: a duplicate name with an undecodable image is "user_exists"
C2_Witness ==
    /\ call.op = "register" /\ HasName(prev, call.name)
    /\ call.image_data = ImgGarbage
    /\ ret.type = "user_exists"

\* C3: a register_user call for a new identity whose encodings are more
\* similar than the dedup threshold to a stored encoding fails with type
\* "face_exists" naming a user that holds such an encoding, and writes
\* nothing; so no two documents with different names hold encodings more
\* similar than the dedup threshold.
C3_SimilarFaceRejected ==
    /\ (FreshRegister /\ Matching(prev, EncodingsOf(call.image_data).val) # {})
          => /\ ret.type = "face_exists"
             /\ ret.existing_user \in Matching(prev, EncodingsOf(call.image_data).val)
             /\ users = prev
    /\ \A i, j \in 1..Len(users) :
          users[i].name # users[j].name
              => users[i].name \notin Matching(<<users[i]>>, users[j].face_encodings)

\* C4: a successful register_user(name, image) of a single-face image followed
\* at once by verify_user(image) returns success with username = name.
C4_EnrollThenVerify ==
    [][ ( /\ call.op = "register" /\ ret.success
          /\ Len(call.image_data.faces) = 1
          /\ call'.op = "verify" /\ call'.image_data = call.image_data
          /\ ~call'.raises )
        => (ret'.success /\ ret'.username = call.name) ]_vars

\* C5 as stated: with an empty store verify_user returns "No registered users
\* found" for every image argument, without computing a similarity.
C5_EmptyStoreAlwaysNoUsers ==
    (call.op = "verify" /\ prev = <<>>)
        => (~ret.success /\ ret.message = "No registered users found" /\ cmps = 0)

\* C5 amended: with an empty store verify_user always returns a failure
\* dict, computes no similarity and writes nothing; the message is "No
\* registered users found" exactly when the image yields a face encoding and
\* users.find returns; otherwise it is the image, no-face or store error.
C5_EmptyStoreFails ==
    (call.op = "verify" /\ prev = <<>>)
        => /\ ~ret.success
           /\ cmps = 0
           /\ users = prev
           /\ ret.message =
                 (IF DecodeBase64Image(call.image_data).is_none THEN "Invalid image data"
                  ELSE IF EncodingsOf(call.image_data).is_none
                       THEN "No face detected in the image"
                  ELSE IF call.raises THEN StoreErrorText
                  ELSE "No registered users found")

\* C5 witness: a face image verified against the empty store
C5_Witness ==
    /\ call.op = "verify" /\ prev = <<>>
    /\ call.image_data = ImgA
    /\ ret.message = "No registered users found"

\* C6: delete_user of a stored name removes the document and returns
\* success = true; of an absent name it returns "User not found" and leaves
\* the store unchanged.
C6_DeleteReportsSuccess ==
    (call.op = "delete" /\ ~call.raises)
        => IF HasName(prev, call.name)
           THEN /\ ~HasName(users, call.name)
                /\ Len(users) = Len(prev) - 1
                /\ ret.success
           ELSE /\ users = prev
                /\ ~ret.success
                /\ ret.message = "User not found"

\* C7 as stated: verify_user succeeds whenever the best score is equal to or
\* above the verification threshold, and fails only when it is below.
C7_InclusiveBoundary ==
    ScanningVerify /\ prev # <<>>
        => (ret.success <=>
               BestScore(prev, EncodingsOf(call.image_data).val) >= VerifyThreshold)

\* C7 amended: verify_user succeeds exactly when the best score is strictly
\* above the verification threshold; a best score equal to it is rejected.
C7_ExclusiveBoundary ==
    ScanningVerify /\ prev # <<>>
        => (ret.success <=>
               BestScore(prev, EncodingsOf(call.image_data).val) > VerifyThreshold)

\* C7 witness: a verification whose best score is exactly the threshold
C7_Witness ==
    /\ ScanningVerify /\ prev # <<>>
    /\ BestScore(prev, EncodingsOf(call.image_data).val) = VerifyThreshold
    /\ ~ret.success

\* The update-worthy threshold of the specification (section 4.3, step 5),
\* in thousandths.  The specification gives it no value and auth.py has no
\* such threshold; it is placed between the verification threshold and a
\* perfect match.
UpdateWorthyThreshold == 950

\* C8 as stated: an accepted verification whose score is below the
\* update-worthy threshold appends one encoding to the matched user's
\* face_encodings and changes no other document; any other verification
\* leaves the store unchanged.
C8_AcceptedMatchAppends ==
    call.op = "verify" =>
        IF ret.success /\ ret.confidence < UpdateWorthyThreshold
        THEN /\ Len(users) = Len(prev)
             /\ \A i \in 1..Len(prev) :
                    /\ users[i].name = prev[i].name
                    /\ Len(users[i].face_encodings) =
                          Len(prev[i].face_encodings)
                             + (IF prev[i].name = ret.username THEN 1 ELSE 0)
        ELSE users = prev

\* C8 amended: verify_user never modifies the store: accepted or not, every
\* user's face_encodings is what it was before the call.
C8_VerifyWritesNothing ==
    call.op = "verify" => users = prev

\* C8 witness: an accepted verification with a score below the update-worthy
\* threshold, after which the store is as before
C8_Witness ==
    /\ call.op = "verify" /\ ret.success
    /\ ret.confidence < UpdateWorthyThreshold
    /\ users = prev

\* C9: register_user inserts exactly one document when it returns success
\* and leaves the store unchanged on every failure result.
C9_OneWriteOnSuccessOnly ==
    call.op = "register" =>
        IF ret.success
        THEN /\ Len(users) = Len(prev) + 1
             /\ SubSeq(users, 1, Len(prev)) = prev
             /\ users[Len(users)].name = call.name
        ELSE users = prev

\* C10: register_user rejects every image in which more than one face is
\* detected and writes nothing; no document holds encodings of two faces.
C10_MultipleFacesRejected ==
    /\ (FreshRegister /\ Len(call.image_data.faces) > 1)
          => (~ret.success /\ users = prev)
    /\ \A i \in 1..Len(users) :
          \A x, y \in Entries(users[i].face_encodings) :
              CosineSimilarity(x, y) = 1000

\* C11 as stated: every document register_user inserts has a face_encodings
\* sequence of exactly one element, and no stored sequence is empty.
C11_SingleEncodingPerRecord ==
    /\ (call.op = "register" /\ ret.success)
          => Len(users[Len(users)].face_encodings) = 1
    /\ \A i \in 1..Len(users) : Len(users[i].face_encodings) >= 1

\* C11 amended: every document register_user inserts holds three encodings
\* for each face detected in the image (the encoding, then the encoding
\* times 0.95 and times 1.05), so three for a single-face image; no stored
\* face_encodings sequence is empty.
C11_ThreeEncodingsPerFace ==
    /\ (call.op = "register" /\ ret.success)
          => /\ Len(call.image_data.faces) >= 1
             /\ Len(users[Len(users)].face_encodings)
                   = 3 * Len(call.image_data.faces)
    /\ \A i \in 1..Len(users) : Len(users[i].face_encodings) >= 3

\* C11 witness: a single-face enrolment that stored three encodings
C11_Witness ==
    /\ call.op = "register" /\ ret.success
    /\ Len(call.image_data.faces) = 1
    /\ Len(users[Len(users)].face_encodings) = 3

\* the number of (user, stored encoding, query encoding) triples
RECURSIVE Triples(_, _)
Triples(store, encs) ==
    IF store = <<>> THEN 0
    ELSE Len(Head(store).face_encodings) * Len(encs) + Triples(Tail(store), encs)

\* C12: verify_user computes the similarity of every (user, stored encoding,
\* query encoding) triple, and when it returns success the confidence is the
\* greatest of them and the username is a stored user holding an encoding
\* that attains it.
C12_GlobalBestReturned ==
    ScanningVerify /\ prev # <<>>
        => LET encs == EncodingsOf(call.image_data).val
           IN /\ cmps = Triples(prev, encs)
              /\ ret.success
                    => /\ ret.confidence = BestScore(prev, encs)
                       /\ \E i \in 1..Len(prev) :
                             /\ prev[i].name = ret.username
                             /\ BestScore(prev, encs) \in ScoresOf(prev[i], encs)

\* C12 witness: an accepted verification against two users, won by the
\* second user scanned, the first having a lower positive best score
C12_Witness ==
    /\ ScanningVerify /\ Len(prev) = 2 /\ ret.success
    /\ ret.username = prev[2].name
    /\ \E sc \in ScoresOf(prev[1], EncodingsOf(call.image_data).val) : sc > 0
    /\ cmps = Triples(prev, EncodingsOf(call.image_data).val)

\* C13: when a store call of register_user raises, whichever it is, the call
\* returns a failure dict with a message and writes nothing; a raise inside
\* the scan of find_existing_face does not let the call go on to insert.
C13_StoreFailureFailsTheCall ==
    (call.op = "register" /\ call.fail_at # "none")
        => /\ ~ret.success
           /\ "message" \in DOMAIN ret
           /\ users = prev

\* a verify_user call rejected at the decision step: a face was extracted,
\* the store was read and is not empty, and the best score does not clear
\* the verification threshold
RejectedAtDecision ==
    /\ ScanningVerify
    /\ prev # <<>>
    /\ BestScore(prev, EncodingsOf(call.image_data).val) <= VerifyThreshold

\* C14: every verify_user call rejected at the decision step returns the
\* same dict, success = false with the message "Face not recognized" and no
\* other field, whatever the store, the best match or the best score.
C14_RejectionsIdentical ==
    RejectedAtDecision
        => ret = [success |-> FALSE, message |-> "Face not recognized"]

\* C14 witness: a rejection whose best score is a near miss (exactly the
\* threshold) and so has a best-matching identity that is not disclosed
C14_Witness ==
    /\ RejectedAtDecision
    /\ BestScore(prev, EncodingsOf(call.image_data).val) = VerifyThreshold
    /\ DOMAIN ret = {"success", "message"}

\* the type register_user returns, told from its arguments, the collection
\* it started from and the store call that raised, in the order of the
\* tests of lines 259-361
RegisterType(store, c) ==
    IF NameMissing(c.name) \/ ImageMissing(c.image_data) THEN "validation_error"
    ELSE IF c.fail_at = "find_one" THEN "error"
    ELSE IF HasName(store, c.name) THEN "user_exists"
    ELSE IF DecodeBase64Image(c.image_data).is_none THEN "image_error"
    ELSE IF EncodingsOf(c.image_data).is_none THEN "face_error"
    ELSE IF /\ c.fail_at \notin {"count_documents", "find"}
            /\ Matching(store, EncodingsOf(c.image_data).val) # {}
         THEN "face_exists"
    ELSE IF c.fail_at \in {"insert_one", "insert_one_applied"} THEN "database_error"
    ELSE "success"

\* the message verify_user returns, told from its argument, the collection
\* it read and whether users.find raised, in the order of lines 375-414
VerifyMessage(store, c) ==
    IF DecodeBase64Image(c.image_data).is_none THEN "Invalid image data"
    ELSE IF EncodingsOf(c.image_data).is_none THEN "No face detected in the image"
    ELSE IF c.raises THEN StoreErrorText
    ELSE IF store = <<>> THEN "No registered users found"
    ELSE IF BestScore(store, EncodingsOf(c.image_data).val) > VerifyThreshold
         THEN "Login successful"
    ELSE "Face not recognized"

\* the message delete_user returns, told from its argument, the collection
\* and whether users.delete_one raised
DeleteMessage(store, c) ==
    IF c.raises THEN StoreErrorText
    ELSE IF HasName(store, c.name) THEN "User deleted successfully"
    ELSE "User not found"

\* the number of similarities one scan of the collection computes for the
\* image, 0 when the image yields no encoding
OnePass(store, image_data) ==
    IF EncodingsOf(image_data).is_none THEN 0
    ELSE Triples(store, EncodingsOf(image_data).val)

\* C15: every register_user, verify_user and delete_user call returns a dict
\* with a boolean success flag and a message, whatever the input and
\* whichever store call or extractor step fails; it scans the collection at
\* most once; and its outcome is the one its arguments, the collection it
\* started from and the raising store call determine, whatever calls came
\* before: the type of register_user, the message and success flag of
\* verify_user, the message of delete_user.
C15_StructuredStatelessResult ==
    /\ call.op # "none"
          => /\ {"success", "message"} \subseteq DOMAIN ret
             /\ ret.success \in BOOLEAN
    /\ call.op = "register"
          => /\ ret.type = RegisterType(prev, call)
             /\ ret.success <=> RegisterType(prev, call) = "success"
             /\ cmps \in {0, OnePass(prev, call.image_data)}
    /\ call.op = "verify"
          => /\ ret.message = VerifyMessage(prev, call)
             /\ ret.success <=> VerifyMessage(prev, call) = "Login successful"
             /\ cmps \in {0, OnePass(prev, call.image_data)}
    /\ call.op = "delete"
          => /\ ret.message = DeleteMessage(prev, call)
             /\ cmps = 0

\* C15 witness: a verify_user call on a face image whose users.find raised,
\* made after earlier calls had filled the collection, returned the failure
\* dict of the handler of line 416 and left the collection as it was
C15_Witness ==
    /\ call.op = "verify" /\ call.raises
    /\ ~EncodingsOf(call.image_data).is_none
    /\ prev # <<>>
    /\ ret = [success |-> FALSE, message |-> StoreErrorText]
    /\ users = prev

====
